---- MODULE Spec2Model ----
(***************************************************************************)
(* Crawl control loop of the book-listing crawler.                         *)
(*                                                                         *)
(* utils/scraper_utils.py: check_no_results and fetch_and_process_page are *)
(* translated statement by statement.  The two helpers of                  *)
(* utils/data_utils.py (is_complete_venue, is_duplicate_venue) and the     *)
(* page loop of main.py are not part of the sources at hand; they are      *)
(* modelled from sections 4.1, 4.2 and 4.5 of the specification.           *)
(*                                                                         *)
(* Python values are represented by strings; None, True and False are the  *)
(* reserved strings PyNone, PyTrue and PyFalse.  A JSON value of the       *)
(* extraction output is a record [type, members]: an "object" carries its  *)
(* key/value mapping in members, any other type carries the empty mapping. *)
(***************************************************************************)
EXTENDS Integers, Sequences, FiniteSets, TLC

\* ------------------------------------------------------------------ bounds
\* longest extraction output (number of candidates on one page)
MaxPageLen == 2

\* ------------------------------------------------------- python constants
PyNone == "<None>"
PyTrue == "<True>"
PyFalse == "<False>"

\* config.py: REQUIRED_KEYS
REQUIRED_KEYS ==
  <<"name", "author", "publisher", "pub_date", "rating", "reviews", "description">>

\* the sentinel searched by check_no_results
NO_RESULTS_TEXT == "No Results Found"

\* ------------------------------------------------------ mappings (dicts)
EmptyDict == [k \in {} |-> ""]

HasKey(d, k) == k \in DOMAIN d

\* dict.get(k): the value, or None when the key is absent
Get(d, k) == IF k \in DOMAIN d THEN d[k] ELSE PyNone

\* dict.pop(k, None): the mapping without the key
Pop(d, k) == [x \in (DOMAIN d) \ {k} |-> d[x]]

\* d | {k: v}
With(d, k, v) == [x \in (DOMAIN d) \cup {k} |-> IF x = k THEN v ELSE d[x]]

\* ------------------------------------------------- JSON values (samples)
Obj(d) == [type |-> "object", members |-> d]
Str == [type |-> "string", members |-> EmptyDict]

IsMapping(venue) == venue.type = "object"

\* models/venue.py: the seven fields of a Venue
Book(n, a) ==
  [name |-> n, author |-> a, publisher |-> "p", pub_date |-> "2024-01",
   rating |-> "4.5", reviews |-> "120", description |-> "d"]

Names == {"Dune", "Emma", "Ulysses"}

\* the candidates an extraction may return
Candidates ==
  { Obj(Book("Dune", "Herbert")),
    Obj(Book("Dune", "Anon")),
    Obj(Book("Emma", "Austen")),
    Obj(Book("Ulysses", "Joyce")),
    Obj(With(Book("Dune", "Herbert"), "error", PyFalse)),
    Obj(With(Book("Emma", "Austen"), "error", PyTrue)),
    Obj(Pop(Book("Dune", "Herbert"), "rating")),
    Obj(With(Book("Emma", "Austen"), "description", "")),
    Obj(With(Book("Emma", "Austen"), "publisher", PyNone)),
    Obj([error |-> PyTrue, content |-> "rate limit"]),
    Str }

SeqsUpTo(S, n) == UNION {[1..k -> S] : k \in 0..n}
\* --------------------------------------------------- collaborator results
\* cleaned_html of the probe fetch, as a sequence of text fragments
HtmlSamples == { <<"<li>", "book">>, <<"<p>", NO_RESULTS_TEXT>> }

\* result of crawler.arun in check_no_results
ProbeResults == [success : BOOLEAN, cleaned_html : HtmlSamples]

\* top-level JSON documents an extraction may print
Array(items) == [type |-> "array", items |-> items]
JsonNull == [type |-> "null", items |-> <<>>]
JsonNumber == [type |-> "number", items |-> <<>>]
JsonDocs == {Array(s) : s \in SeqsUpTo(Candidates, MaxPageLen)} \cup {JsonNull, JsonNumber}

\* result.extracted_content: None, "", text that is not JSON, or JSON text
ContentNone == [text |-> "none", doc |-> JsonNull]
ContentEmpty == [text |-> "empty", doc |-> JsonNull]
ContentGarbage == [text |-> "garbage", doc |-> JsonNull]
Contents ==
  {ContentNone, ContentEmpty, ContentGarbage} \cup {[text |-> "json", doc |-> d] : d \in JsonDocs}

\* result of crawler.arun with the extraction strategy
ExtractResults == [success : BOOLEAN, extracted_content : Contents]

\* truth value of a str-or-None
StrTruthy(content) == content.text \notin {"none", "empty"}

\* truth value of a parsed JSON document
DocTruthy(doc) ==
  CASE doc.type = "array" -> Len(doc.items) > 0
    [] doc.type = "null" -> FALSE
    [] OTHER -> TRUE

\* json.loads: the document, or JSONDecodeError / TypeError
json_loads(content) ==
  IF content.text = "json"
    THEN [raised |-> FALSE, value |-> content.doc]
    ELSE [raised |-> TRUE, value |-> JsonNull]

\* ------------------------------------------------ utils/data_utils.py
\* is_complete_venue (specification 4.1): a mapping in which every required
\* key is present with a value that is neither None nor the empty string
is_complete_venue(venue, required_keys) ==
  /\ IsMapping(venue)
  /\ \A i \in 1..Len(required_keys) :
       /\ HasKey(venue.members, required_keys[i])
       /\ venue.members[required_keys[i]] \notin {PyNone, ""}

\* is_duplicate_venue (specification 4.2): membership in the seen set
is_duplicate_venue(venue_name, seen_names) == venue_name \in seen_names

\* ------------------------------------------------ utils/scraper_utils.py
\* variant: the url asks for the page after the cursor
PageUrl_NextPage(n) == n + 1

\* line 118: the page the url of both fetches asks for
PageUrl(n) == n

\* "No Results Found" in result.cleaned_html
ContainsSentinel(html) == \E i \in 1..Len(html) : html[i] = NO_RESULTS_TEXT

\* variant: a failed probe fetch is taken for the end of the catalog
check_no_results_FailureExhausts(result) ==
  IF result.success
    THEN (IF ContainsSentinel(result.cleaned_html) THEN TRUE ELSE FALSE)
    ELSE TRUE

\* variant: the sentinel is searched with another capitalisation
check_no_results_WrongSentinel(result) ==
  IF result.success
    THEN (IF \E i \in 1..Len(result.cleaned_html) :
                result.cleaned_html[i] = "No results found"
            THEN TRUE ELSE FALSE)
    ELSE FALSE

\* check_no_results, lines 79-87
check_no_results(result) ==
  IF result.success
    THEN (IF ContainsSentinel(result.cleaned_html) THEN TRUE ELSE FALSE)
    ELSE FALSE

\* variant: only the success flag is tested, the content is not
ExtractFailed_IgnoresContent(result) == ~result.success

\* line 137: not (result.success and result.extracted_content)
ExtractFailed(result) == ~(result.success /\ StrTruthy(result.extracted_content))

\* lines 157-158: drop the 'error' key when its value is False
StripError(venue) ==
  IF Get(venue.members, "error") = PyFalse
    THEN Obj(Pop(venue.members, "error"))
    ELSE venue

\* variant: the duplicate test is left out
FilterVenue_NoDuplicateTest(venue, seen, complete) ==
  IF ~is_complete_venue(venue, REQUIRED_KEYS)
    THEN [seen |-> seen, complete |-> complete]
    ELSE [seen |-> seen \cup {venue.members["name"]},
          complete |-> Append(complete, venue)]

\* variant: only the presence of the name is tested, not the required keys
FilterVenue_NameOnly(venue, seen, complete) ==
  IF ~HasKey(venue.members, "name")
    THEN [seen |-> seen, complete |-> complete]
    ELSE IF is_duplicate_venue(venue.members["name"], seen)
      THEN [seen |-> seen, complete |-> complete]
      ELSE [seen |-> seen \cup {venue.members["name"]},
            complete |-> Append(complete, venue)]

\* variant: a survivor is put in front of the page's list
FilterVenue_Prepend(venue, seen, complete) ==
  IF ~is_complete_venue(venue, REQUIRED_KEYS)
    THEN [seen |-> seen, complete |-> complete]
    ELSE IF is_duplicate_venue(venue.members["name"], seen)
      THEN [seen |-> seen, complete |-> complete]
      ELSE [seen |-> seen \cup {venue.members["name"]},
            complete |-> <<venue>> \o complete]

\* variant: the seen set is rebuilt from the accepted name alone
FilterVenue_ForgetsSeen(venue, seen, complete) ==
  IF ~is_complete_venue(venue, REQUIRED_KEYS)
    THEN [seen |-> seen, complete |-> complete]
    ELSE IF is_duplicate_venue(venue.members["name"], seen)
      THEN [seen |-> seen, complete |-> complete]
      ELSE [seen |-> {venue.members["name"]},
            complete |-> Append(complete, venue)]

\* variant: the name is registered before the required keys are tested
FilterVenue_RegistersFirst(venue, seen, complete) ==
  IF ~is_complete_venue(venue, REQUIRED_KEYS)
    THEN [seen |-> IF HasKey(venue.members, "name")
                     THEN seen \cup {venue.members["name"]} ELSE seen,
          complete |-> complete]
    ELSE IF is_duplicate_venue(venue.members["name"], seen)
      THEN [seen |-> seen, complete |-> complete]
      ELSE [seen |-> seen \cup {venue.members["name"]},
            complete |-> Append(complete, venue)]

\* variant: a duplicate met on the same page takes the place of the record
\* kept so far
FilterVenue_LastWins(venue, seen, complete) ==
  IF ~is_complete_venue(venue, REQUIRED_KEYS)
    THEN [seen |-> seen, complete |-> complete]
    ELSE IF is_duplicate_venue(venue.members["name"], seen)
      THEN [seen |-> seen,
            complete |-> [i \in 1..Len(complete) |->
                            IF complete[i].members["name"] = venue.members["name"]
                              THEN venue ELSE complete[i]]]
      ELSE [seen |-> seen \cup {venue.members["name"]},
            complete |-> Append(complete, venue)]

\* lines 160-169: one candidate against the required keys and the seen names
FilterVenue(venue, seen, complete) ==
  IF ~is_complete_venue(venue, REQUIRED_KEYS)
    THEN [seen |-> seen, complete |-> complete]
    ELSE IF is_duplicate_venue(venue.members["name"], seen)
      THEN [seen |-> seen, complete |-> complete]
      ELSE [seen |-> seen \cup {venue.members["name"]},
            complete |-> Append(complete, venue)]

\* lines 151-169: the for loop over a whole extraction output, from
\* position i on
RECURSIVE FilterFrom(_, _, _, _)
FilterFrom(extracted, i, seen, complete) ==
  IF i > Len(extracted)
    THEN [seen |-> seen, complete |-> complete]
    ELSE LET out == FilterVenue(StripError(extracted[i]), seen, complete) IN
         FilterFrom(extracted, i + 1, out.seen, out.complete)

\* lines 151-169: the survivors and the seen names the loop leaves
FilterPage(extracted, seen) == FilterFrom(extracted, 1, seen, <<>>)

\* variant: the page always reports an empty list
PageReturn_AlwaysEmpty(extracted, complete) == [venues |-> <<>>, no_results |-> FALSE]

\* variant: the raw extraction output is tested and returned in place of
\* the survivors
PageReturn_RawList(extracted, complete) ==
  IF extracted = <<>>
    THEN [venues |-> <<>>, no_results |-> FALSE]
    ELSE [venues |-> extracted, no_results |-> FALSE]

\* variant: the survivors are returned with the no-results flag set
PageReturn_FlagSet(extracted, complete) ==
  IF complete = <<>>
    THEN [venues |-> <<>>, no_results |-> FALSE]
    ELSE [venues |-> complete, no_results |-> TRUE]

\* lines 171-176: what the page returns after the loop, from its two lists
\* extracted_data and complete_venues
PageReturn(extracted, complete) ==
  IF complete = <<>>
    THEN [venues |-> <<>>, no_results |-> FALSE]
    ELSE [venues |-> complete, no_results |-> FALSE]

\* ------------------------------------------------------------------ state
VARIABLES
  pc,               \* "Probing", "Extracting", "Filtering", "Done", "Raised"
  page_number,      \* the cursor of the page loop
  seen_names,       \* names accepted so far in this run
  all_venues,       \* the accumulated output
  probe,            \* result of the probe fetch of the current page
  result,           \* result of the extraction fetch of the current page
  extracted_data,   \* parsed extraction output of the current page
  idx,              \* position of the for loop in extracted_data
  complete_venues,  \* survivors of the current page so far
  ret,              \* what the last call of fetch_and_process_page returned
  calls             \* the fetches issued so far, in order

vars ==
  <<pc, page_number, seen_names, all_venues, probe, result, extracted_data,
    idx, complete_venues, ret, calls>>

NoProbe == [success |-> FALSE, cleaned_html |-> <<>>]
NoResult == [success |-> FALSE, extracted_content |-> ContentNone]
NoReturn == [venues |-> <<>>, no_results |-> FALSE]

Init ==
  /\ pc = "Probing"
  /\ page_number = 1
  /\ seen_names = {}
  /\ all_venues = <<>>
  /\ probe = NoProbe
  /\ result = NoResult
  /\ extracted_data = <<>>
  /\ idx = 0
  /\ complete_venues = <<>>
  /\ ret = NoReturn
  /\ calls = <<>>

\* variant: the loop stops on the no-results flag only
Controller_OnlyFlagStops(r) ==
  /\ ret' = r
  /\ IF r.no_results
       THEN /\ pc' = "Done"
            /\ UNCHANGED <<page_number, all_venues>>
       ELSE /\ pc' = "Probing"
            /\ page_number' = page_number + 1
            /\ all_venues' = all_venues \o r.venues

\* main.py page loop (specification 4.5): what the controller does with the
\* pair returned for the current page
Controller(r) ==
  /\ ret' = r
  /\ IF r.no_results \/ r.venues = <<>>
       THEN /\ pc' = "Done"
            /\ UNCHANGED <<page_number, all_venues>>
       ELSE /\ pc' = "Probing"
            /\ page_number' = page_number + 1
            /\ all_venues' = all_venues \o r.venues

\* lines 118-124: the probe of the current page
Probe ==
  /\ pc = "Probing"
  /\ \E r \in ProbeResults :
       /\ probe' = r
       /\ calls' = Append(calls, [op |-> "probe", page |-> PageUrl(page_number)])
       /\ result' = NoResult
       /\ extracted_data' = <<>>
       /\ idx' = 0
       /\ complete_venues' = <<>>
       /\ UNCHANGED seen_names
       /\ IF check_no_results(r)
            THEN Controller([venues |-> <<>>, no_results |-> TRUE])
            ELSE /\ pc' = "Extracting"
                 /\ UNCHANGED <<page_number, all_venues, ret>>

\* lines 126-148: the extraction fetch and the parse of its content
Extract ==
  /\ pc = "Extracting"
  /\ \E r \in ExtractResults :
       /\ result' = r
       /\ calls' = Append(calls, [op |-> "extract", page |-> PageUrl(page_number)])
       /\ UNCHANGED <<seen_names, probe, complete_venues>>
       /\ IF ExtractFailed(r)
            THEN /\ Controller([venues |-> <<>>, no_results |-> FALSE])
                 /\ UNCHANGED <<extracted_data, idx>>
            ELSE LET parsed == json_loads(r.extracted_content) IN
                 IF parsed.raised
                   THEN /\ pc' = "Raised"
                        /\ UNCHANGED <<page_number, all_venues, ret, extracted_data, idx>>
                   ELSE IF ~DocTruthy(parsed.value)
                     THEN /\ Controller([venues |-> <<>>, no_results |-> FALSE])
                          /\ UNCHANGED <<extracted_data, idx>>
                     ELSE IF parsed.value.type # "array"
                       THEN \* line 152: iterating a value that is no list
                            /\ pc' = "Raised"
                            /\ UNCHANGED <<page_number, all_venues, ret, extracted_data, idx>>
                       ELSE /\ pc' = "Filtering"
                            /\ extracted_data' = parsed.value.items
                            /\ idx' = 1
                            /\ UNCHANGED <<page_number, all_venues, ret>>

\* lines 152-169: one iteration of the for loop
FilterStep ==
  /\ pc = "Filtering"
  /\ idx <= Len(extracted_data)
  /\ UNCHANGED <<page_number, all_venues, probe, result, extracted_data, ret, calls>>
  /\ LET venue == extracted_data[idx] IN
       IF ~IsMapping(venue)
         THEN \* line 157: venue.get on a value that is no dict
              /\ pc' = "Raised"
              /\ UNCHANGED <<seen_names, complete_venues, idx>>
         ELSE LET out == FilterVenue(StripError(venue), seen_names, complete_venues) IN
              /\ seen_names' = out.seen
              /\ complete_venues' = out.complete
              /\ idx' = idx + 1
              /\ pc' = "Filtering"

\* lines 171-176: the loop is over, the page returns
PageEnd ==
  /\ pc = "Filtering"
  /\ idx > Len(extracted_data)
  /\ Controller(PageReturn(extracted_data, complete_venues))
  /\ UNCHANGED <<seen_names, probe, result, extracted_data, idx, complete_venues, calls>>

Next == Probe \/ Extract \/ FilterStep \/ PageEnd

Spec == Init /\ [][Next]_vars

\* every awaited call returns and the loop keeps running
FairSpec == Spec /\ WF_vars(Next)

TypeOK ==
  /\ pc \in {"Probing", "Extracting", "Filtering", "Done", "Raised"}
  /\ page_number \in 1..(Cardinality(Names) + 1)
  /\ seen_names \subseteq Names
\* ------------------------------------------------------------- vocabulary
NameOf(venue) == venue.members["name"]

\* the candidate under the for loop, when there is one
AtCandidate == pc = "Filtering" /\ idx <= Len(extracted_data)
Candidate == extracted_data[idx]

\* the for loop is over and the page is about to return
AtPageEnd == pc = "Filtering" /\ idx > Len(extracted_data)

\* an error marker whose value is neither absent, None, False nor empty
ErrorMarked(venue) ==
  /\ IsMapping(venue)
  /\ HasKey(venue.members, "error")
  /\ venue.members["error"] \notin {PyNone, PyFalse, ""}

\* the RequiredFieldSet check of the data model, spelled out
RequiredFieldsOK(venue) ==
  /\ IsMapping(venue)
  /\ \A k \in {"name", "author", "publisher", "pub_date", "rating", "reviews",
               "description"} :
       k \in DOMAIN venue.members /\ venue.members[k] # PyNone /\ venue.members[k] # ""

LastCall == calls[Len(calls)]

\* ---------------------------------------------------------------- claims

\* C1: no two records of the output, the survivors of the page in progress
\* included, carry the same name.
C1_NoDuplicateNames ==
  LET out == all_venues \o (IF pc = "Probing" THEN <<>> ELSE complete_venues) IN
  \A i, j \in 1..Len(out) : i # j => NameOf(out[i]) # NameOf(out[j])

\* C1 witness: on a later page the loop has passed a complete candidate whose
\* name was accepted on an earlier page.
C1_Witness ==
  /\ pc = "Filtering"
  /\ Len(all_venues) > 0
  /\ idx > 1
  /\ RequiredFieldsOK(extracted_data[1])
  /\ NameOf(extracted_data[1]) = NameOf(all_venues[1])
  /\ complete_venues = <<>>

C3_ErrorMarkedRejected ==
  [][(AtCandidate /\ ErrorMarked(Candidate)) =>
       /\ complete_venues' = complete_venues
       /\ seen_names' = seen_names
       /\ pc' = "Filtering"
       /\ idx' = idx + 1]_vars

\* C4: a page whose filtering ends with no survivor takes the controller to
\* Done without changing the output, and nothing is fetched from Done.
C4_ZeroSurvivorsStop ==
  [][/\ (AtPageEnd /\ complete_venues = <<>>) =>
          /\ pc' = "Done"
          /\ all_venues' = all_venues
          /\ page_number' = page_number
          /\ calls' = calls
     /\ (pc = "Done") => (calls' = calls /\ pc' = "Done")]_vars

\* C4 witness: the run is Done after a page whose candidates were all
\* rejected.
C4_Witness ==
  /\ pc = "Done"
  /\ extracted_data # <<>>
  /\ idx > Len(extracted_data)
  /\ complete_venues = <<>>
  /\ Len(all_venues) > 0
\* C5: every run ends in Done: a run that can take no further step is Done.
C5_TerminatesInDone == pc = "Done" \/ ENABLED Next

RejectedOnPage == Len(complete_venues) < Len(extracted_data)

C7_OutputIsComplete ==
  LET out == all_venues \o (IF pc = "Probing" THEN <<>> ELSE complete_venues) IN
  /\ \A i \in 1..Len(out) : RequiredFieldsOK(out[i])
  /\ seen_names \subseteq {NameOf(out[i]) : i \in 1..Len(out)}

\* C7 witness: the loop has passed an incomplete candidate that carries a
\* name, and then accepted a complete one.
C7_Witness ==
  /\ pc = "Filtering"
  /\ idx = 3
  /\ IsMapping(extracted_data[1])
  /\ HasKey(extracted_data[1].members, "name")
  /\ ~RequiredFieldsOK(extracted_data[1])
  /\ Len(complete_venues) = 1
  /\ NameOf(extracted_data[1]) \notin seen_names

\* C8: extraction content that does not parse stops the run like an
\* extraction failure: Done, output and seen names untouched.
C8_UnparsableStopsCleanly ==
  [][(/\ pc = "Extracting"
      /\ result'.success
      /\ result'.extracted_content.text = "garbage") =>
       /\ pc' = "Done"
       /\ all_venues' = all_venues
       /\ seen_names' = seen_names]_vars

\* C9: a candidate that is no mapping is skipped and the loop goes on to
\* the next candidate.
C9_NonMappingSkipped ==
  [][(AtCandidate /\ ~IsMapping(Candidate)) =>
       /\ pc' = "Filtering"
       /\ idx' = idx + 1
       /\ complete_venues' = complete_venues
       /\ seen_names' = seen_names]_vars

\* the extraction fetches are issued for strictly increasing pages
ExtractOncePerPage ==
  \A i, j \in 1..Len(calls) :
    (i < j /\ calls[i].op = "extract" /\ calls[j].op = "extract") =>
      calls[i].page < calls[j].page

\* C10: an extraction that fails or brings no content takes the controller
\* to Done with an empty page result, the output and the seen names
\* untouched; no page is extracted twice and nothing is fetched from Done.
C10_ExtractionFailureStops ==
  [][/\ (/\ pc = "Extracting"
         /\ \/ ~result'.success
            \/ ~StrTruthy(result'.extracted_content)
            \/ (result'.extracted_content.text = "json"
                /\ ~DocTruthy(result'.extracted_content.doc))) =>
          /\ pc' = "Done"
          /\ ret'.venues = <<>>
          /\ all_venues' = all_venues
          /\ seen_names' = seen_names
          /\ page_number' = page_number
     /\ (pc = "Done") => (calls' = calls /\ pc' = "Done")
     /\ ExtractOncePerPage']_vars

\* C10 witness: the run is Done on the failed extraction of page 2, with
\* the records of page 1 kept.
C10_Witness ==
  /\ pc = "Done"
  /\ calls # <<>>
  /\ LastCall = [op |-> "extract", page |-> 2]
  /\ ~result.success
  /\ Len(all_venues) > 0

\* the candidates of the page as the loop leaves them (error: False dropped)
Stripped(extracted) == [i \in 1..Len(extracted) |-> StripError(extracted[i])]

Accumulated == {NameOf(all_venues[i]) : i \in 1..Len(all_venues)}

\* every candidate of the page is valid and its name is new
AllValidNonDuplicate ==
  /\ extracted_data # <<>>
  /\ \A i \in 1..Len(extracted_data) :
       /\ RequiredFieldsOK(extracted_data[i])
       /\ NameOf(extracted_data[i]) \notin Accumulated
  /\ \A i, j \in 1..Len(extracted_data) :
       i # j => NameOf(extracted_data[i]) # NameOf(extracted_data[j])

\* the fetches so far are probe 1, extract 1, probe 2, extract 2, ...
CallsAlternate ==
  \A i \in 1..Len(calls) :
    calls[i] = IF i % 2 = 1
                 THEN [op |-> "probe", page |-> (i + 1) \div 2]
                 ELSE [op |-> "extract", page |-> i \div 2]

\* C11: a page whose candidates are all valid and new hands exactly these
\* candidates, in order, to the output and the run goes on to the next
\* page; the probe that reports exhaustion ends the run with the output as
\* it is and without an extraction for that page; the fetches are probe 1,
\* extract 1, probe 2, ...: exhaustion at page K leaves extractions for
\* exactly the pages 1..K-1.
C11_CleanRunUntilExhaustion ==
  [][/\ (AtPageEnd /\ AllValidNonDuplicate) =>
          /\ pc' = "Probing"
          /\ page_number' = page_number + 1
          /\ all_venues' = all_venues \o Stripped(extracted_data)
     /\ (pc = "Probing" /\ probe'.success /\ ContainsSentinel(probe'.cleaned_html)) =>
          /\ pc' = "Done"
          /\ all_venues' = all_venues
          /\ calls' = Append(calls, [op |-> "probe", page |-> page_number])
          /\ Len(calls') = 2 * page_number - 1
     /\ CallsAlternate']_vars

\* C11 witness: the probe of page 2 reported exhaustion after a page 1 whose
\* candidates were all accepted.
C11_Witness ==
  /\ pc = "Done"
  /\ ret.no_results
  /\ page_number = 2
  /\ Len(all_venues) = MaxPageLen
  /\ Len(calls) = 3

\* C12: exhaustion is reported only for a probe fetch that succeeded and
\* whose content holds the sentinel; never for a failed probe fetch.
C12_ExhaustionOnlyOnSentinel ==
  /\ ret.no_results => (probe.success /\ ContainsSentinel(probe.cleaned_html))
  /\ (calls # <<>> /\ ~probe.success) => (~ret.no_results /\ ~(pc = "Done" /\ LastCall.op = "probe"))
  /\ (pc = "Done" /\ LastCall.op = "probe") => ret.no_results

\* C12 witness: a probe fetch failed with the sentinel in what it brought
\* back, and the page went on to extraction.
C12_Witness ==
  /\ pc = "Extracting"
  /\ ~probe.success
  /\ ContainsSentinel(probe.cleaned_html)

\* C13: a page returns a non-empty list of validated records without the
\* flag and the run continues, or an empty list and the run stops; the
\* flag is set exactly when the sentinel was met.
C13_PageResultShapes ==
  /\ ret.venues # <<>> => ~ret.no_results
  /\ \A i \in 1..Len(ret.venues) : RequiredFieldsOK(ret.venues[i])
  /\ ret.no_results <=> (probe.success /\ ContainsSentinel(probe.cleaned_html))
  /\ pc = "Done" => ret.venues = <<>>
  /\ (pc = "Probing" /\ calls # <<>>) => ret.venues # <<>>

\* C13 witness: page 1 returned survivors and the run continued, page 2
\* returned the empty list without the flag and the run stopped.
C13_Witness ==
  /\ pc = "Done"
  /\ page_number = 2
  /\ ~ret.no_results
  /\ ret.venues = <<>>
  /\ Len(all_venues) > 0

\* the survivors of the page are candidates the loop has passed, in the
\* order of the extraction output
InPageOrder ==
  \E f \in [1..Len(complete_venues) -> 1..Len(extracted_data)] :
    /\ \A i \in 1..Len(complete_venues) :
         f[i] < idx /\ complete_venues[i] = StripError(extracted_data[f[i]])
    /\ \A i, j \in 1..Len(complete_venues) : i < j => f[i] < f[j]

\* C14: the survivors of a page keep the order of its extraction output,
\* and the output changes only when a page ends, by the survivors of that
\* page being put behind the records of all earlier pages.
C14_OutputInVisitOrder ==
  [][/\ InPageOrder'
     /\ (all_venues' # all_venues) =>
          /\ AtPageEnd
          /\ complete_venues # <<>>
          /\ all_venues' = all_venues \o complete_venues
          /\ page_number' = page_number + 1]_vars

\* C14 witness: the output holds the two records of page 1 followed by a
\* record of page 2.
C14_Witness ==
  /\ pc = "Probing"
  /\ page_number = 3
  /\ Len(all_venues) = 3
  /\ Len(complete_venues) = 1
  /\ all_venues[3] = complete_venues[1]

\* C15: the fetches are probe 1, extract 1, probe 2, extract 2, ...; the
\* extraction of a page is fetched right after its probe, filtering starts
\* right after the extraction has returned, nothing is fetched while a
\* page is filtered, and a page after the first is probed only when the
\* loop over the previous page is over.
C15_OnePageAtATime ==
  [][/\ CallsAlternate'
     /\ (pc = "Filtering") => calls' = calls
     /\ (calls' # calls /\ calls'[Len(calls')].op = "probe") =>
          /\ pc = "Probing"
          /\ calls'[Len(calls')].page = page_number
          /\ \/ page_number = 1
             \/ extracted_data # <<>> /\ idx > Len(extracted_data)
     /\ (calls' # calls /\ calls'[Len(calls')].op = "extract") =>
          /\ pc = "Extracting"
          /\ LastCall = [op |-> "probe", page |-> page_number]
          /\ calls'[Len(calls')].page = page_number
     /\ (pc # "Filtering" /\ pc' = "Filtering") =>
          /\ pc = "Extracting"
          /\ idx' = 1
          /\ complete_venues' = <<>>]_vars

\* C15 witness: page 2 is being filtered after page 1 went through probe,
\* extraction and filtering.
C15_Witness ==
  /\ pc = "Filtering"
  /\ page_number = 2
  /\ idx = 2
  /\ Len(calls) = 4

\* the run has been signalled to stop: the last page returned the flag or
\* an empty list
Stopped ==
  /\ calls # <<>>
  /\ pc \in {"Probing", "Done"}
  /\ ret.no_results \/ ret.venues = <<>>

\* C16: once the run has been signalled to stop it stays stopped: no fetch
\* is issued and the output and the seen names no longer change.
C16_DoneIsAbsorbing ==
  [][/\ Stopped' <=> (pc' = "Done")
     /\ Stopped =>
          /\ Stopped'
          /\ calls' = calls
          /\ all_venues' = all_venues
          /\ seen_names' = seen_names]_vars

\* C16 witness: the run stopped on an all-rejected page 2 with the records
\* of page 1 in the output.
C16_Witness ==
  /\ pc = "Done"
  /\ Stopped
  /\ page_number = 2
  /\ extracted_data # <<>>
  /\ idx > Len(extracted_data)
  /\ complete_venues = <<>>
  /\ Len(all_venues) > 0

\* C17: when the filtering of a page is over, its survivors and the seen
\* names are what the loop makes of the extraction output and of the seen
\* names the page started with; the same extraction output filtered once
\* more against the seen names now reached yields no survivor and leaves
\* the seen names as they are.
C17_SecondPassYieldsNothing ==
  AtPageEnd =>
    LET first == FilterPage(extracted_data, Accumulated)
        again == FilterPage(extracted_data, seen_names) IN
    /\ first.complete = complete_venues
    /\ first.seen = seen_names
    /\ again.complete = <<>>
    /\ again.seen = seen_names

\* C17 witness: the filtering of a page is over and left two survivors.
C17_Witness ==
  /\ AtPageEnd
  /\ Len(complete_venues) = 2
  /\ page_number = 2

\* s is a prefix of t
IsPrefix(s, t) ==
  /\ Len(s) <= Len(t)
  /\ \A i \in 1..Len(s) : s[i] = t[i]

\* C18: across every step the output keeps its records in place and may
\* only get longer, and the seen names keep every name they held.
C18_OnlyGrow ==
  [][/\ Len(all_venues') >= Len(all_venues)
     /\ IsPrefix(all_venues, all_venues')
     /\ seen_names \subseteq seen_names']_vars

\* C18 witness: the output and the seen names have grown on two pages.
C18_Witness ==
  /\ pc = "Probing"
  /\ page_number = 3
  /\ Len(all_venues) >= 2
  /\ Cardinality(seen_names) >= 2

\* C19: whenever the loop is between two pages or has stopped, the seen
\* names are exactly the names of the records of the output.
C19_SeenEqualsOutputNames ==
  pc \in {"Probing", "Done"} => seen_names = Accumulated

\* C19 witness: page 1 was left with a survivor and with a rejected
\* candidate whose name is in neither the seen names nor the output.
C19_Witness ==
  /\ pc = "Probing"
  /\ page_number = 2
  /\ Len(extracted_data) = 2
  /\ Len(all_venues) = 1
  /\ \E i \in 1..2 :
       /\ HasKey(extracted_data[i].members, "name")
       /\ NameOf(extracted_data[i]) \notin seen_names

\* the positions the loop has passed that hold a complete candidate of
\* that name
CompleteAt(n) ==
  {p \in 1..Len(extracted_data) :
     /\ p < idx
     /\ RequiredFieldsOK(extracted_data[p])
     /\ NameOf(extracted_data[p]) = n}

Min(S) == CHOOSE x \in S : \A y \in S : x <= y

\* first occurrence wins on the page under the loop
FirstWinsOnPage ==
  pc = "Filtering" =>
    \A n \in Names :
      LET kept == {i \in 1..Len(complete_venues) : NameOf(complete_venues[i]) = n} IN
      IF n \in Accumulated \/ CompleteAt(n) = {}
        THEN kept = {}
        ELSE /\ Cardinality(kept) = 1
             /\ \A i \in kept :
                  complete_venues[i] = StripError(extracted_data[Min(CompleteAt(n))])

\* C20: the record kept under a name is the first complete candidate of
\* that name: on the page under the loop it is the earliest complete one
\* unless an earlier page gave the name, an incomplete candidate of the
\* name does not stand in its way, and a record of the output is never
\* replaced.
C20_FirstOccurrenceWins ==
  [][/\ FirstWinsOnPage'
     /\ IsPrefix(all_venues, all_venues')
     /\ (all_venues' # all_venues) => all_venues' = all_venues \o complete_venues]_vars

\* C20 witness: the loop has passed two different complete candidates of
\* the same name and kept the first.
C20_Witness ==
  /\ pc = "Filtering"
  /\ idx = 3
  /\ RequiredFieldsOK(extracted_data[1])
  /\ RequiredFieldsOK(extracted_data[2])
  /\ NameOf(extracted_data[1]) = NameOf(extracted_data[2])
  /\ extracted_data[1] # extracted_data[2]
  /\ complete_venues = <<extracted_data[1]>>
====
